---- MODULE Spec2Model ----
(***************************************************************************)
(* Model of the LinkedIn HTML extraction scripts:                          *)
(*   src/src/extract_companies_html_to_json.py   (company variant)         *)
(*   src/src/extract_persons_html_to_json.py     (person variant)          *)
(*   src/extract_html_to_csv.py                  (csv variant)             *)
(*   src/src/utils.py                            (row selectors)           *)
(*                                                                         *)
(* Three specifications share the operators below:                         *)
(*   Spec         a run (and a re-run) of one script over a directory      *)
(*   SpecSelect   the row selectors of utils.py applied to a table         *)
(*   SpecExtract  the per-record field extraction applied to one record    *)
(***************************************************************************)
EXTENDS Integers, Sequences, FiniteSets, TLC

VARIABLES
    variant,    \* which script runs: "company", "person" or "csv"
    files,      \* the input directory's files, in traversal order
    outFile,    \* the result file on disk (<dir>/<dir>.json or linkedin.csv)
    debugFile,  \* data.json, the raw payload dump of the csv script
    pc,         \* position of the process: "loop", "write", "done", "exit", "crash"
    found,      \* the files this run iterates over
    i,          \* number of loop iterations started in this run
    data,       \* the accumulated table (`data` in get_all_information)
    err,        \* how the process ended abnormally: exception name or "SystemExit"
    exitCode,   \* the process exit status once it has ended
    printed,    \* TRUE once "Error while parsing JSON data" was printed
    consulted,  \* per file read in this run, the code-block indices handed to json.loads
    selected,   \* per file processed in this run, the table the row selector returned
    written,    \* TRUE once this run has written its result file
    run,        \* 1 for the first invocation, 2 for the second
    prev,       \* what the first invocation found and wrote (kept for the second)
    fn,         \* SpecSelect / SpecExtract: the function under study
    arg,        \* SpecSelect / SpecExtract: its input
    res         \* SpecSelect / SpecExtract: its result

vars == <<variant, files, outFile, debugFile, pc, found, i, data, err, exitCode,
          printed, consulted, selected, written, run, prev, fn, arg, res>>

(***************************************************************************)
(* Bounds of the model.                                                    *)
(***************************************************************************)
MaxDocs == 3    \* files in the input directory
MaxRows == 5    \* rows of a table handed to a row selector

(***************************************************************************)
(* Python / JSON values.  None and NaN are both JNull.                     *)
(***************************************************************************)
JNull == [type |-> "null"]
JStr(s) == [type |-> "str", s |-> s]
JNum(n) == [type |-> "num", n |-> n]
JList(xs) == [type |-> "list", items |-> xs]
JObj(f) == [type |-> "obj", at |-> f]
EmptyObj == JObj(<<>>)
Raise(e) == [type |-> "raise", exc |-> e]
IsRaise(v) == v.type = "raise"

\* d.get(k, default): AttributeError when d is no dict; an exception raised
\* while evaluating d propagates.
DictGet(d, k, default) ==
    IF IsRaise(d) THEN d
    ELSE IF d.type # "obj" THEN Raise("AttributeError")
    ELSE IF k \in DOMAIN d.at THEN d.at[k]
    ELSE default

\* d[k]: KeyError when the dict has no such key, TypeError when d is a list,
\* a number or None subscripted by a string.
Subscript(d, k) ==
    IF d.type # "obj" THEN Raise("TypeError")
    ELSE IF k \in DOMAIN d.at THEN d.at[k]
    ELSE Raise("KeyError")

\* The first exception raised by a sequence of evaluations, in source order.
FirstRaise(vs) ==
    LET bad == {k \in 1..Len(vs) : IsRaise(vs[k])}
    IN IF bad = {} THEN JNull
       ELSE vs[CHOOSE k \in bad : \A m \in bad : k <= m]

(***************************************************************************)
(* Tables (pandas DataFrame): column labels, row labels, cells by row.     *)
(***************************************************************************)
\* A sequence given as a function, written out as a tuple.
AsTuple(f) == f \o <<>>

EmptyFrame == [columns |-> <<>>, index |-> <<>>, values |-> <<>>]

IsNa(c) == c.type = "null"

Range(s) == {s[k] : k \in 1..Len(s)}

IsUnique(s) == \A a, b \in 1..Len(s) : s[a] = s[b] => a = b

\* Position of the first occurrence of x in s, 0 when absent.
PosOf(s, x) ==
    IF x \in Range(s) THEN CHOOSE k \in 1..Len(s) : s[k] = x /\ \A m \in 1..(k-1) : s[m] # x
    ELSE 0

\* s followed by the elements of t that s lacks (union of labels, unsorted).
UnionSeq(s, t) == s \o SelectSeq(t, LAMBDA x : x \notin Range(s))

\* pd.DataFrame([new_row]): one row labelled 0, columns in key order.
FrameOfRow(cols, cells) == [columns |-> cols, index |-> <<0>>, values |-> <<cells>>]

\* The cell of row r (a position) of df under column label c, NaN when df
\* has no such column.
CellByName(df, r, c) ==
    IF PosOf(df.columns, c) = 0 THEN JNull ELSE df.values[r][PosOf(df.columns, c)]

\* pd.concat([a, b], ignore_index=True): rows of a, then rows of b, columns
\* aligned by label, rows renumbered from 0.
ConcatRows(a, b) ==
    LET cols == UnionSeq(a.columns, b.columns)
        n == Len(a.index) + Len(b.index)
    IN [columns |-> cols,
        index |-> AsTuple([k \in 1..n |-> k - 1]),
        values |-> AsTuple([k \in 1..n |->
                      AsTuple([j \in 1..Len(cols) |->
                         IF k <= Len(a.index) THEN CellByName(a, k, cols[j])
                         ELSE CellByName(b, k - Len(a.index), cols[j])])])]

\* pd.concat([a, b], axis=1): columns of a, then columns of b (labels may
\* repeat), rows aligned by row label, NaN where a frame lacks the label.
ConcatColumns(a, b) ==
    LET idx == UnionSeq(a.index, b.index)
        cols == a.columns \o b.columns
        cell(fr, lbl, j) == IF PosOf(fr.index, lbl) = 0 THEN JNull
                            ELSE fr.values[PosOf(fr.index, lbl)][j]
    IN [columns |-> cols,
        index |-> idx,
        values |-> AsTuple([k \in 1..Len(idx) |->
                      AsTuple([j \in 1..Len(cols) |->
                         IF j <= Len(a.columns) THEN cell(a, idx[k], j)
                         ELSE cell(b, idx[k], j - Len(a.columns))])])]

\* df.notna().sum(axis=1) at row position r.
NonNaCount(df, r) == Cardinality({j \in 1..Len(df.columns) : ~IsNa(df.values[r][j])})

NaCount(df, r) == Len(df.columns) - NonNaCount(df, r)

\* The rows of df at the positions in keep, labels and order kept.
TakeRows(df, keep) ==
    LET ps == SelectSeq([k \in 1..Len(df.index) |-> k], LAMBDA k : k \in keep)
    IN [columns |-> df.columns,
        index |-> AsTuple([k \in 1..Len(ps) |-> df.index[ps[k]]]),
        values |-> AsTuple([k \in 1..Len(ps) |-> df.values[ps[k]]])]

\* df.dropna(thresh=t): keep the rows with at least t non-NA cells.
DropNaThresh(df, t) == TakeRows(df, {r \in 1..Len(df.index) : NonNaCount(df, r) >= t})

\* df.dropna(): keep the rows without any NA cell.
DropNaAny(df) == TakeRows(df, {r \in 1..Len(df.index) : NaCount(df, r) = 0})

(***************************************************************************)
(* utils.py                                                                *)
(***************************************************************************)
\* A plausible slip: the last row holding the largest count.
IdxMaxPosLast(df) ==
    CHOOSE r \in 1..Len(df.index) :
        /\ \A q \in 1..Len(df.index) : NonNaCount(df, q) <= NonNaCount(df, r)
        /\ \A q \in (r + 1)..Len(df.index) : NonNaCount(df, q) < NonNaCount(df, r)

\* Series.idxmax(): position of the first row holding the largest count.
IdxMaxPos(df) ==
    CHOOSE r \in 1..Len(df.index) :
        /\ \A q \in 1..Len(df.index) : NonNaCount(df, q) <= NonNaCount(df, r)
        /\ \A q \in 1..(r - 1) : NonNaCount(df, q) < NonNaCount(df, r)

\* A plausible slip: an empty table is handed back instead of raising.
row_with_most_non_nans_guarded(df) ==
    IF Len(df.index) = 0 THEN [type |-> "frame", frame |-> df]
    ELSE [type |-> "frame", frame |-> TakeRows(df, {IdxMaxPos(df)})]

\* row_with_most_non_nans(df): ValueError from idxmax on an empty table,
\* otherwise the one-row table of the chosen row, its label kept.
row_with_most_non_nans(df) ==
    IF Len(df.index) = 0 THEN Raise("ValueError")
    ELSE [type |-> "frame", frame |-> TakeRows(df, {IdxMaxPos(df)})]

\* A plausible slip: thresh=x, keeping the rows with at least x non-NA cells.
exclude_rows_thresh_is_x(df, x) == DropNaThresh(df, x)

\* exclude_rows_with_x_nans(df, x): df.dropna(thresh=df.shape[1] - x).
exclude_rows_with_x_nans(df, x) == DropNaThresh(df, Len(df.columns) - x)

(***************************************************************************)
(* Field extraction: the body of the `for lines in js["included"]` loops.  *)
(***************************************************************************)
CompanyColumns ==
    <<"name", "tagline", "description", "websiteUrl", "foundedOn", "headquarterCity",
      "headquarterCountry", "geographicArea", "phone", "specialities",
      "employeeCountRangeStart", "employeeCountRangeEnd">>

PersonColumns == <<"name", "subtitle", "position", "linkedinUrl">>

CsvColumns == <<"name", "subtitle", "linkedinurl">>

\* The one-row table of the cells, or the first exception among them.
RowResult(cols, cells, order) ==
    IF \E k \in 1..Len(order) : IsRaise(order[k]) THEN FirstRaise(order)
    ELSE [type |-> "frame", frame |-> FrameOfRow(cols, cells)]

\* A plausible slip: a direct subscript instead of .get(key, {}).
GetDictStrict(lines, k) == Subscript(lines, k)

\* lines.get(k, {}): the nested object, {} when the key is absent.
GetDict(lines, k) == DictGet(lines, k, EmptyObj)

\* extract_companies_html_to_json.py, one record of js["included"].
CompanyRow(lines) ==
    LET name == DictGet(lines, "name", JNull)
        tagline == DictGet(lines, "tagline", JNull)
        description == DictGet(lines, "description", JNull)
        founded_on == DictGet(GetDict(lines, "foundedOn"), "year", JNull)
        address == DictGet(GetDict(lines, "headquarter"), "address", EmptyObj)
        headquarter_city == DictGet(address, "city", JNull)
        headquarter_country == DictGet(address, "country", JNull)
        geographic_area == DictGet(address, "geographicArea", JNull)
        website_url == DictGet(lines, "websiteUrl", JNull)
        phone == DictGet(GetDict(lines, "phone"), "number", JNull)
        employee_count_range_start == DictGet(GetDict(lines, "employeeCountRange"), "start", JNull)
        employee_count_range_end == DictGet(GetDict(lines, "employeeCountRange"), "end", JNull)
        specialities == DictGet(lines, "specialities", JNull)
    IN RowResult(CompanyColumns,
                 <<name, tagline, description, website_url, founded_on, headquarter_city,
                   headquarter_country, geographic_area, phone, specialities,
                   employee_count_range_start, employee_count_range_end>>,
                 <<name, tagline, description, founded_on, headquarter_city,
                   headquarter_country, geographic_area, website_url, phone,
                   employee_count_range_start, employee_count_range_end, specialities>>)

\* extract_persons_html_to_json.py, one record of js["included"].
PersonRow(lines) ==
    LET title == DictGet(GetDict(lines, "title"), "text", JNull)
        subtitle == DictGet(GetDict(lines, "primarySubtitle"), "text", JNull)
        position == DictGet(GetDict(lines, "summary"), "text", JNull)
        linkedin_url == DictGet(lines, "bserpEntityNavigationalUrl", JNull)
    IN RowResult(PersonColumns, <<title, subtitle, position, linkedin_url>>,
                 <<title, subtitle, position, linkedin_url>>)

\* extract_html_to_csv.py, one record of js['included'].
CsvRow(j) ==
    LET title == DictGet(GetDict(j, "title"), "text", JNull)
        subtitle == DictGet(GetDict(j, "primarySubtitle"), "text", JNull)
        linkedinurl == DictGet(j, "bserpEntityNavigationalUrl", JNull)
    IN RowResult(CsvColumns, <<title, subtitle, linkedinurl>>,
                 <<title, subtitle, linkedinurl>>)

RowOf(v, lines) ==
    CASE v = "company" -> CompanyRow(lines)
      [] v = "person" -> PersonRow(lines)
      [] OTHER -> CsvRow(lines)

\* The loop over the records: each row is appended to df with
\* pd.concat([df, row], ignore_index=True); an exception ends the loop.
ExtractRows(v, items, df) ==
    LET rows == AsTuple([k \in 1..Len(items) |-> RowOf(v, items[k])])
        acc[k \in 0..Len(items)] ==
            IF k = 0 THEN df ELSE ConcatRows(acc[k - 1], rows[k].frame)
    IN IF \E k \in 1..Len(items) : IsRaise(rows[k]) THEN FirstRaise(rows)
       ELSE [type |-> "frame", frame |-> acc[Len(items)]]

\* What `for lines in x` iterates over: the items of a list, the keys of a
\* dict; None and numbers are not iterable.  (A non-empty str yields its
\* characters, each a str; it is represented by one str item.)
SetToSeq(S) ==
    CHOOSE s \in [1..Cardinality(S) -> S] : Range(s) = S

IterItems(x) ==
    CASE IsRaise(x) -> x
      [] x.type = "list" -> x
      [] x.type = "obj" -> JList(AsTuple([k \in 1..Len(SetToSeq(DOMAIN x.at)) |->
                                             JStr(SetToSeq(DOMAIN x.at)[k])]))
      [] x.type = "str" -> JList(IF x.s = "" THEN <<>> ELSE <<x>>)
      [] OTHER -> Raise("TypeError")

(***************************************************************************)
(* Payload location: raw_data and json.loads.                              *)
(*                                                                         *)
(* A document is [ncode, at]: the number of <code> elements and, for the   *)
(* indices the scripts use, the stripped text of that element.  A text is  *)
(* either no JSON (kind "garbage") or the JSON text of a value.            *)
(***************************************************************************)
ELEMENT_WITH_RELEVANT_DATA == 20

ELEMENTS_WITH_RELEVANT_DATA == <<14, 16>>

CSV_ELEMENT == 16

Garbage == [kind |-> "garbage"]
JsonText(v) == [kind |-> "json", value |-> v]

\* raw_data[k]
RawData(doc, k) ==
    IF k < doc.ncode THEN [type |-> "text", text |-> doc.at[k]] ELSE Raise("IndexError")

\* json.loads(raw_data[k])
JsonLoads(raw) ==
    IF IsRaise(raw) THEN raw
    ELSE IF raw.text.kind = "garbage" THEN Raise("JSONDecodeError")
    ELSE raw.text.value

(***************************************************************************)
(* read_html_file of the three scripts.  The result is one of              *)
(*   [type |-> "frame", frame, consulted]   the table of extracted rows    *)
(*   [type |-> "exit", consulted]           print diagnostic, sys.exit(1)  *)
(*   [type |-> "raise", exc, consulted]     an exception nobody catches    *)
(* consulted lists the indices of raw_data that were subscripted; the csv  *)
(* script's result also carries the payload dumped to data.json.           *)
(***************************************************************************)
NoDump == [kind |-> "none"]

Outcome(r, seen, dump) ==
    IF IsRaise(r) THEN [type |-> "raise", exc |-> r.exc, consulted |-> seen, dump |-> dump]
    ELSE [type |-> "frame", frame |-> r.frame, consulted |-> seen, dump |-> dump]

\* for lines in js["included"]: ...
RowsOfPayload(v, js) ==
    LET items == IterItems(Subscript(js, "included"))
    IN IF IsRaise(items) THEN items ELSE ExtractRows(v, items.items, EmptyFrame)

\* extract_companies_html_to_json.py
read_html_file_company(doc) ==
    LET js == JsonLoads(RawData(doc, ELEMENT_WITH_RELEVANT_DATA))
        seen == <<ELEMENT_WITH_RELEVANT_DATA>>
    IN IF IsRaise(js) /\ js.exc = "JSONDecodeError"
       THEN [type |-> "exit", consulted |-> seen, dump |-> NoDump]
       ELSE IF IsRaise(js) THEN Outcome(js, seen, NoDump)
       ELSE Outcome(RowsOfPayload("company", js), seen, NoDump)

\* A plausible slip: the candidates after the first are never tried.
RECURSIVE LocateFirstOnly(_, _, _)
LocateFirstOnly(doc, cands, seen) ==
    IF cands = <<>> \/ seen # <<>> THEN [type |-> "unset", consulted |-> seen]
    ELSE LET js == JsonLoads(RawData(doc, Head(cands)))
             seen2 == Append(seen, Head(cands))
         IN IF IsRaise(js) /\ js.exc = "JSONDecodeError"
            THEN LocateFirstOnly(doc, Tail(cands), seen2)
            ELSE IF IsRaise(js) THEN [type |-> "raise", exc |-> js.exc, consulted |-> seen2]
            ELSE [type |-> "js", js |-> js, consulted |-> seen2]

\* A plausible slip: a candidate whose value has no "included" key is skipped
\* like one that does not parse.
RECURSIVE LocateWithIncluded(_, _, _)
LocateWithIncluded(doc, cands, seen) ==
    IF cands = <<>> THEN [type |-> "unset", consulted |-> seen]
    ELSE LET js == JsonLoads(RawData(doc, Head(cands)))
             seen2 == Append(seen, Head(cands))
         IN IF IsRaise(js) /\ js.exc = "JSONDecodeError"
            THEN LocateWithIncluded(doc, Tail(cands), seen2)
            ELSE IF IsRaise(js) THEN [type |-> "raise", exc |-> js.exc, consulted |-> seen2]
            ELSE IF IsRaise(Subscript(js, "included"))
            THEN LocateWithIncluded(doc, Tail(cands), seen2)
            ELSE [type |-> "js", js |-> js, consulted |-> seen2]

\* for element in ELEMENTS_WITH_RELEVANT_DATA: try json.loads, continue on
\* JSONDecodeError, break on success; another exception leaves the loop.
RECURSIVE Locate(_, _, _)
Locate(doc, cands, seen) ==
    IF cands = <<>> THEN [type |-> "unset", consulted |-> seen]
    ELSE LET js == JsonLoads(RawData(doc, Head(cands)))
             seen2 == Append(seen, Head(cands))
         IN IF IsRaise(js) /\ js.exc = "JSONDecodeError"
            THEN Locate(doc, Tail(cands), seen2)
            ELSE IF IsRaise(js) THEN [type |-> "raise", exc |-> js.exc, consulted |-> seen2]
            ELSE [type |-> "js", js |-> js, consulted |-> seen2]

\* extract_persons_html_to_json.py
read_html_file_person(doc) ==
    LET loc == Locate(doc, ELEMENTS_WITH_RELEVANT_DATA, <<>>)
    IN CASE loc.type = "unset" -> [type |-> "exit", consulted |-> loc.consulted, dump |-> NoDump]
         [] loc.type = "raise" -> Outcome(Raise(loc.exc), loc.consulted, NoDump)
         [] OTHER -> Outcome(RowsOfPayload("person", loc.js), loc.consulted, NoDump)

\* extract_html_to_csv.py: len(js['included']) and js['included'][iteration].
CsvItems(x) ==
    CASE IsRaise(x) -> x
      [] x.type = "obj" -> IF DOMAIN x.at = {} THEN JList(<<>>) ELSE Raise("KeyError")
      [] OTHER -> IterItems(x)

\* extract_html_to_csv.py: no try around json.loads; the payload is dumped
\* to data.json before the rows are extracted.
read_html_file_csv(doc) ==
    LET js == JsonLoads(RawData(doc, CSV_ELEMENT))
        seen == <<CSV_ELEMENT>>
    IN IF IsRaise(js) THEN Outcome(js, seen, NoDump)
       ELSE LET items == CsvItems(Subscript(js, "included"))
                dump == [kind |-> "dump", value |-> js]
            IN IF IsRaise(items) THEN Outcome(items, seen, dump)
               ELSE Outcome(ExtractRows("csv", items.items, EmptyFrame), seen, dump)

(***************************************************************************)
(* File discovery and the result file.                                     *)
(***************************************************************************)
NoFile == [kind |-> "nofile"]

JsonVariants == {"company", "person"}

Variants == {"company", "person", "csv"}

\* What a non-HTML file looks like to BeautifulSoup: no <code> element.
NoCode == [ncode |-> 0, at |-> <<>>]

\* The directory as the file system lists it: the input files and, for the
\* JSON scripts, the result file <dir>/<dir>.json once it exists (the csv
\* script writes linkedin.csv and data.json to the working directory).
DirListing(v, fs, out) ==
    IF v \in JsonVariants /\ out # NoFile THEN Append(fs, [ext |-> "json", doc |-> NoCode])
    ELSE fs

\* A plausible slip: every file of the directory, whatever its extension.
AllFiles(listing) == listing

\* directory_pathlib.rglob("*.html")
RglobHtml(listing) == SelectSeq(listing, LAMBDA f : f.ext = "html")

\* get_all_files_in_folder(path): every file, whatever its extension.
get_all_files_in_folder(listing) == listing

Discover(v, listing) ==
    IF v \in JsonVariants THEN RglobHtml(listing) ELSE get_all_files_in_folder(listing)

\* data.to_json(path, orient="records", force_ascii=False): ValueError
\* when column labels repeat (nothing is written); otherwise one object per
\* row, keyed by column label, the row labels dropped.
ToJsonRecords(df) ==
    IF ~IsUnique(df.columns) THEN Raise("ValueError")
    ELSE [type |-> "file", kind |-> "json",
          records |-> AsTuple([r \in 1..Len(df.index) |->
                                 [c \in Range(df.columns) |-> CellByName(df, r, c)]])]

\* merged_df.to_csv('linkedin.csv'): a header line, then one line per row,
\* each led by the row label.
ToCsv(df) ==
    [type |-> "file", kind |-> "csv",
     header |-> <<"">> \o df.columns,
     lines |-> AsTuple([r \in 1..Len(df.index) |-> <<JNum(df.index[r])>> \o df.values[r]])]

(***************************************************************************)
(* The inputs of a run: saved pages as the scripts see them.               *)
(***************************************************************************)
Included(recs) == JsonText(JObj([included |-> JList(recs)]))

NoIncludedKey == JsonText(JObj([data |-> JObj(<<>>)]))

Text(t) == JObj([text |-> JStr(t)])

\* Company records: a full one, two sparse ones, an unrelated entity, and
\* one whose headquarter is null.
CompanyFull ==
    JObj([name |-> JStr("Acme"), tagline |-> JStr("We build"), description |-> JStr("Maker"),
          websiteUrl |-> JStr("https://acme"), foundedOn |-> JObj([year |-> JNum(1999)]),
          headquarter |-> JObj([address |-> JObj([city |-> JStr("Bern"), country |-> JStr("CH"),
                                                  geographicArea |-> JStr("BE")])]),
          phone |-> JObj([number |-> JStr("123")]),
          specialities |-> JList(<<JStr("tools")>>),
          employeeCountRange |-> JObj([start |-> JNum(11), end |-> JNum(50)])])

CompanySparse ==
    JObj([name |-> JStr("Globex"), headquarter |-> JObj(<<>>), phone |-> JObj(<<>>),
          employeeCountRange |-> JObj([start |-> JNum(1)])])

CompanyOther == JObj([name |-> JStr("Initech"), tagline |-> JStr("Ads")])

Unrelated == JObj([entityUrn |-> JStr("urn:nav")])

CompanyNullHq == JObj([name |-> JStr("Hooli"), headquarter |-> JNull])

\* <code> elements of a page that has every index the scripts use.
CodeCount == ELEMENT_WITH_RELEVANT_DATA + 1

CompanyPage(text) == [ncode |-> CodeCount, at |-> (20 :> text)]

CompanyDocs ==
    { CompanyPage(Included(<<Unrelated, CompanyFull>>)),
      CompanyPage(Included(<<CompanySparse>>)),
      CompanyPage(Included(<<CompanyOther, CompanySparse, CompanyOther>>)),
      CompanyPage(Included(<<>>)),
      CompanyPage(NoIncludedKey),
      CompanyPage(Garbage),
      CompanyPage(Included(<<CompanyNullHq>>)),
      [ncode |-> 17, at |-> <<>>] }

\* Person records, by number of null output fields: 0, 1, 2, 3, 4.
PersonFull ==
    JObj([title |-> Text("Jane Doe"), primarySubtitle |-> Text("Engineer"),
          summary |-> Text("Current: Engineer"), bserpEntityNavigationalUrl |-> JStr("https://x")])

PersonNoSummary ==
    JObj([title |-> Text("John Roe"), primarySubtitle |-> Text("Analyst"),
          bserpEntityNavigationalUrl |-> JStr("https://y")])

PersonTwoNulls == JObj([title |-> Text("Ann Poe"), bserpEntityNavigationalUrl |-> JStr("https://z")])

PersonThreeNulls == JObj([title |-> Text("LinkedIn Member")])

PersonPage(n, t14, t16) == [ncode |-> n, at |-> (14 :> t14 @@ 16 :> t16)]

PersonDocs ==
    { PersonPage(17, Included(<<Unrelated, PersonFull, PersonThreeNulls, PersonTwoNulls>>), Garbage),
      PersonPage(17, Garbage, Included(<<PersonNoSummary>>)),
      PersonPage(17, Garbage, Garbage),
      PersonPage(17, NoIncludedKey, Included(<<PersonFull>>)),
      PersonPage(17, Included(<<>>), Garbage),
      PersonPage(17, Included(<<Unrelated, PersonThreeNulls>>), Included(<<PersonFull>>)),
      [ncode |-> 15, at |-> (14 :> Garbage)],
      [ncode |-> 15, at |-> (14 :> Included(<<PersonTwoNulls>>))] }

CsvPage(text) == [ncode |-> 17, at |-> (16 :> text)]

CsvDocs ==
    { CsvPage(Included(<<Unrelated, PersonFull, PersonThreeNulls, PersonNoSummary>>)),
      CsvPage(Included(<<PersonTwoNulls>>)),
      CsvPage(Included(<<PersonNoSummary>>)),
      CsvPage(Included(<<>>)),
      CsvPage(NoIncludedKey),
      CsvPage(Garbage),
      [ncode |-> 15, at |-> <<>>] }

DocsOf(v) ==
    CASE v = "company" -> CompanyDocs
      [] v = "person" -> PersonDocs
      [] OTHER -> CsvDocs

\* The files a directory may hold: the pages above saved as .html, and one
\* page saved under another extension.
OtherFile(v) ==
    CASE v = "company" -> [ext |-> "txt", doc |-> CompanyPage(Included(<<CompanyOther>>))]
      [] v = "person" -> [ext |-> "txt", doc |-> PersonPage(17, Included(<<PersonFull>>), Garbage)]
      [] OTHER -> [ext |-> "txt", doc |-> CsvPage(Included(<<PersonFull>>))]

FilesOf(v) == {[ext |-> "html", doc |-> d] : d \in DocsOf(v)} \cup {OtherFile(v)}

Directories(v) == UNION {[1..n -> FilesOf(v)] : n \in 0..MaxDocs}

(***************************************************************************)
(* A run of one script: get_all_information / get_all_informations + main. *)
(***************************************************************************)
Idle == [name |-> "none"]

StartOfRun(v, fs, out) ==
    /\ found' = Discover(v, DirListing(v, fs, out))
    /\ pc' = "loop"
    /\ i' = 0
    /\ data' = EmptyFrame
    /\ err' = "none"
    /\ exitCode' = -1
    /\ printed' = FALSE
    /\ consulted' = <<>>
    /\ selected' = <<>>
    /\ written' = FALSE

Init ==
    /\ variant \in Variants
    /\ files \in Directories(variant)
    /\ outFile = NoFile
    /\ debugFile = NoDump
    /\ found = Discover(variant, DirListing(variant, files, NoFile))
    /\ pc = "loop"
    /\ i = 0
    /\ data = EmptyFrame
    /\ err = "none"
    /\ exitCode = -1
    /\ printed = FALSE
    /\ consulted = <<>>
    /\ selected = <<>>
    /\ written = FALSE
    /\ run = 1
    /\ prev = Idle
    /\ fn = "none" /\ arg = Idle /\ res = Idle

\* A plausible slip: sys.exit() without a status, which exits with 0.
ExitsWithStatusZero ==
    /\ pc' = "exit" /\ err' = "SystemExit" /\ exitCode' = 0 /\ printed' = TRUE
    /\ UNCHANGED <<data, selected>>

\* The process ends in sys.exit(1) after printing the diagnostic.
ExitsWithDiagnostic ==
    /\ pc' = "exit" /\ err' = "SystemExit" /\ exitCode' = 1 /\ printed' = TRUE
    /\ UNCHANGED <<data, selected>>

\* The process ends in an exception nobody catches (traceback, status 1).
Crashes(exc) ==
    /\ pc' = "crash" /\ err' = exc /\ exitCode' = 1
    /\ UNCHANGED <<data, selected, printed>>

\* One iteration of the loop of the company script: read_html_file,
\* row_with_most_non_nans, pd.concat([data, row], axis=1).
CompanyLoop ==
    /\ variant = "company" /\ pc = "loop" /\ i < Len(found)
    /\ LET r == read_html_file_company(found[i + 1].doc)
           row == IF r.type = "frame" THEN row_with_most_non_nans(r.frame) ELSE Idle
       IN /\ i' = i + 1
          /\ consulted' = Append(consulted, r.consulted)
          /\ CASE r.type = "exit" -> ExitsWithDiagnostic
               [] r.type = "raise" -> Crashes(r.exc)
               [] r.type = "frame" /\ IsRaise(row) -> Crashes(row.exc)
               [] OTHER -> /\ data' = ConcatColumns(data, row.frame)
                           /\ selected' = Append(selected, row.frame)
                           /\ UNCHANGED <<pc, err, exitCode, printed>>
    /\ UNCHANGED <<variant, files, outFile, debugFile, found, written, run, prev, fn, arg, res>>

PERSON_NAN_THRESHOLD == 2

\* One iteration of the loop of the person script: read_html_file,
\* exclude_rows_with_x_nans(df, 2), pd.concat([data, rows], axis=1).
PersonLoop ==
    /\ variant = "person" /\ pc = "loop" /\ i < Len(found)
    /\ LET r == read_html_file_person(found[i + 1].doc)
       IN /\ i' = i + 1
          /\ consulted' = Append(consulted, r.consulted)
          /\ CASE r.type = "exit" -> ExitsWithDiagnostic
               [] r.type = "raise" -> Crashes(r.exc)
               [] OTHER ->
                    LET rows == exclude_rows_with_x_nans(r.frame, PERSON_NAN_THRESHOLD)
                    IN /\ data' = ConcatColumns(data, rows)
                       /\ selected' = Append(selected, rows)
                       /\ UNCHANGED <<pc, err, exitCode, printed>>
    /\ UNCHANGED <<variant, files, outFile, debugFile, found, written, run, prev, fn, arg, res>>

\* One iteration of the loop of the csv script: read_html_file (which dumps
\* data.json), df.dropna(), pd.concat([data, df], ignore_index=True).
CsvLoop ==
    /\ variant = "csv" /\ pc = "loop" /\ i < Len(found)
    /\ LET r == read_html_file_csv(found[i + 1].doc)
       IN /\ i' = i + 1
          /\ consulted' = Append(consulted, r.consulted)
          /\ debugFile' = IF r.dump = NoDump THEN debugFile ELSE r.dump
          /\ CASE r.type = "raise" -> Crashes(r.exc)
               [] OTHER ->
                    LET df == DropNaAny(r.frame)
                    IN /\ data' = ConcatRows(data, df)
                       /\ selected' = Append(selected, df)
                       /\ UNCHANGED <<pc, err, exitCode, printed>>
    /\ UNCHANGED <<variant, files, outFile, found, written, run, prev, fn, arg, res>>

\* After the loop of a JSON script: data.to_json(<dir>/<dir>.json, ...).
JsonWrite ==
    /\ variant \in JsonVariants /\ pc = "loop" /\ i = Len(found)
    /\ LET out == ToJsonRecords(data)
       IN IF IsRaise(out)
          THEN /\ Crashes(out.exc)
               /\ UNCHANGED <<outFile, written>>
          ELSE /\ outFile' = out
               /\ written' = TRUE
               /\ pc' = "done" /\ exitCode' = 0
               /\ UNCHANGED <<data, selected, err, printed>>
    /\ UNCHANGED <<variant, files, debugFile, found, i, consulted, run, prev, fn, arg, res>>

\* After the loop of the csv script: merged_df.to_csv('linkedin.csv').
CsvWrite ==
    /\ variant = "csv" /\ pc = "loop" /\ i = Len(found)
    /\ outFile' = ToCsv(data)
    /\ written' = TRUE
    /\ pc' = "done" /\ exitCode' = 0
    /\ UNCHANGED <<variant, files, debugFile, found, i, data, err, printed, consulted,
                   selected, run, prev, fn, arg, res>>

\* The script is invoked a second time on the same directory, its HTML
\* files unchanged, after a first invocation that completed.
Rerun ==
    /\ pc = "done" /\ run = 1
    /\ run' = 2
    /\ prev' = [found |-> found, out |-> outFile]
    /\ StartOfRun(variant, files, outFile)
    /\ UNCHANGED <<variant, files, outFile, debugFile, fn, arg, res>>

Next == CompanyLoop \/ PersonLoop \/ CsvLoop \/ JsonWrite \/ CsvWrite \/ Rerun

Spec == Init /\ [][Next]_vars

(***************************************************************************)
(* SpecSelect: the row selectors of utils.py applied to a table as         *)
(* read_html_file builds it (rows labelled 0..n-1; no columns when empty). *)
(***************************************************************************)
NoRun ==
    /\ variant = "none" /\ files = <<>> /\ outFile = NoFile /\ debugFile = NoDump
    /\ found = <<>> /\ i = 0 /\ data = EmptyFrame /\ err = "none" /\ exitCode = -1
    /\ printed = FALSE /\ consulted = <<>> /\ selected = <<>> /\ written = FALSE
    /\ run = 1 /\ prev = Idle

\* A row over cols whose first k cells hold a value and whose others are null.
FilledRow(cols, k) == [j \in 1..Len(cols) |-> IF j <= k THEN JStr(cols[j]) ELSE JNull]

MaxFilled == Len(PersonColumns)

RowsOver(cols) == {FilledRow(cols, k) : k \in 0..MaxFilled}

FramesOver(cols) ==
    {EmptyFrame} \cup
    UNION {{[columns |-> cols, index |-> [k \in 1..n |-> k - 1], values |-> vs] :
               vs \in [1..n -> RowsOver(cols)]} : n \in 1..MaxRows}

InitSelect ==
    /\ NoRun
    /\ pc = "call"
    /\ res = Idle
    /\ \/ /\ fn = "row_with_most_non_nans"
          /\ arg \in {[df |-> f, x |-> 0] : f \in FramesOver(CompanyColumns)}
       \/ /\ fn = "exclude_rows_with_x_nans"
          /\ arg \in {[df |-> f, x |-> x] : f \in FramesOver(PersonColumns),
                                            x \in 0..Len(PersonColumns)}

ApplyBestRow ==
    /\ pc = "call" /\ fn = "row_with_most_non_nans"
    /\ res' = row_with_most_non_nans(arg.df)
    /\ pc' = "return"
    /\ UNCHANGED <<variant, files, outFile, debugFile, found, i, data, err, exitCode,
                   printed, consulted, selected, written, run, prev, fn, arg>>

ApplyThresholdDrop ==
    /\ pc = "call" /\ fn = "exclude_rows_with_x_nans"
    /\ res' = [type |-> "frame", frame |-> exclude_rows_with_x_nans(arg.df, arg.x)]
    /\ pc' = "return"
    /\ UNCHANGED <<variant, files, outFile, debugFile, found, i, data, err, exitCode,
                   printed, consulted, selected, written, run, prev, fn, arg>>

NextSelect == ApplyBestRow \/ ApplyThresholdDrop

SpecSelect == InitSelect /\ [][NextSelect]_vars

(***************************************************************************)
(* SpecExtract: the field extraction applied to one entity record.  A key  *)
(* read by the extractor is absent, null, or present in one of the shapes  *)
(* below.                                                                  *)
(***************************************************************************)
\* The ways key k can occur in an object: absent, or bound to a value of vs.
Key(k, vs) == {<<>>} \cup {k :> v : v \in vs}

TextShapes(t) == {JNull, JStr(t), EmptyObj, JObj([text |-> JNull]), Text(t)}

PersonRecords ==
    {JObj(a @@ b @@ c @@ d) :
        a \in Key("title", TextShapes("Jane Doe")),
        b \in Key("primarySubtitle", TextShapes("Engineer")),
        c \in Key("summary", TextShapes("Current: Engineer")),
        d \in Key("bserpEntityNavigationalUrl", {JNull, JStr("https://x")})}

AddressShapes ==
    {JNull, EmptyObj, JObj([city |-> JStr("Bern")]),
     JObj([country |-> JStr("CH"), geographicArea |-> JStr("BE")]),
     JObj([city |-> JStr("Bern"), country |-> JStr("CH"), geographicArea |-> JStr("BE")])}

CompanyRecords ==
    {JObj(a @@ b @@ c @@ d @@ e @@ f @@ g @@ h @@ k) :
        a \in Key("name", {JNull, JStr("Acme")}),
        b \in Key("tagline", {JStr("We build")}),
        c \in Key("description", {JStr("Maker")}),
        d \in Key("websiteUrl", {JStr("https://acme")}),
        e \in Key("specialities", {JList(<<JStr("tools")>>)}),
        f \in Key("foundedOn", {JNull, EmptyObj, JObj([year |-> JNum(1999)])}),
        g \in Key("headquarter", {JNull, EmptyObj} \cup {JObj([address |-> x]) : x \in AddressShapes}),
        h \in Key("phone", {JNull, EmptyObj, JObj([number |-> JStr("123")])}),
        k \in Key("employeeCountRange",
                  {JNull, EmptyObj, JObj([start |-> JNum(11)]),
                   JObj([start |-> JNum(11), end |-> JNum(50)])})}

InitExtract ==
    /\ NoRun
    /\ pc = "call"
    /\ res = Idle
    /\ \/ fn = "person" /\ arg \in PersonRecords
       \/ fn = "company" /\ arg \in CompanyRecords

ExtractPerson ==
    /\ pc = "call" /\ fn = "person"
    /\ res' = PersonRow(arg)
    /\ pc' = "return"
    /\ UNCHANGED <<variant, files, outFile, debugFile, found, i, data, err, exitCode,
                   printed, consulted, selected, written, run, prev, fn, arg>>

ExtractCompany ==
    /\ pc = "call" /\ fn = "company"
    /\ res' = CompanyRow(arg)
    /\ pc' = "return"
    /\ UNCHANGED <<variant, files, outFile, debugFile, found, i, data, err, exitCode,
                   printed, consulted, selected, written, run, prev, fn, arg>>

NextExtract == ExtractPerson \/ ExtractCompany

SpecExtract == InitExtract /\ [][NextExtract]_vars

(***************************************************************************)
(* Vocabulary of the properties.                                           *)
(***************************************************************************)
BlockExists(doc, e) == e < doc.ncode
BlockParses(doc, e) == BlockExists(doc, e) /\ doc.at[e].kind = "json"
BlockFailsToParse(doc, e) == BlockExists(doc, e) /\ doc.at[e].kind = "garbage"

ConfiguredIndex(v) == IF v = "company" THEN ELEMENT_WITH_RELEVANT_DATA ELSE CSV_ELEMENT

Last(s) == s[Len(s)]

\* The result file as it was when the current run started.
OutAtStart == IF run = 1 THEN NoFile ELSE prev.out

\* The run ended abnormally while processing file k, having written nothing.
AbortedAt(k) ==
    /\ pc \in {"exit", "crash"}
    /\ exitCode > 0
    /\ i = k /\ Len(consulted) = k
    /\ ~written /\ outFile = OutAtStart

Schema(v) == IF v = "company" THEN CompanyColumns ELSE PersonColumns

\* The source path of each output field, in column order.
FieldPaths(v) ==
    IF v = "company"
    THEN << <<"name">>, <<"tagline">>, <<"description">>, <<"websiteUrl">>,
            <<"foundedOn", "year">>,
            <<"headquarter", "address", "city">>,
            <<"headquarter", "address", "country">>,
            <<"headquarter", "address", "geographicArea">>,
            <<"phone", "number">>, <<"specialities">>,
            <<"employeeCountRange", "start">>, <<"employeeCountRange", "end">> >>
    ELSE << <<"title", "text">>, <<"primarySubtitle", "text">>, <<"summary", "text">>,
            <<"bserpEntityNavigationalUrl">> >>

\* The intermediate objects on those paths: their proper, non-empty prefixes.
Intermediates(v) ==
    UNION {{SubSeq(FieldPaths(v)[j], 1, n) : n \in 1..(Len(FieldPaths(v)[j]) - 1)} :
              j \in 1..Len(FieldPaths(v))}

RECURSIVE HasPath(_, _)
HasPath(v, path) ==
    \/ path = <<>>
    \/ /\ v.type = "obj"
       /\ Head(path) \in DOMAIN v.at
       /\ HasPath(v.at[Head(path)], Tail(path))

RECURSIVE AtPath(_, _)
AtPath(v, path) == IF path = <<>> THEN v ELSE AtPath(v.at[Head(path)], Tail(path))

IsPrefix(p, q) == Len(p) <= Len(q) /\ SubSeq(q, 1, Len(p)) = p

NullAt(rec, p) == HasPath(rec, p) /\ AtPath(rec, p) = JNull

\* Every intermediate object of the record is absent, null or a mapping.
MappingsOrNull(v, rec) ==
    \A p \in Intermediates(v) : HasPath(rec, p) => AtPath(rec, p).type \in {"obj", "null"}

\* Every intermediate object of the record is absent or a mapping.
MappingsOnly(v, rec) ==
    \A p \in Intermediates(v) : HasPath(rec, p) => AtPath(rec, p).type = "obj"

RECURSIVE StackValues(_)
StackValues(frames) ==
    IF frames = <<>> THEN <<>> ELSE Head(frames).values \o StackValues(Tail(frames))

NonNulls(row) == Cardinality({j \in 1..Len(row) : row[j] # JNull})
Nulls(row) == Cardinality({j \in 1..Len(row) : row[j] = JNull})

(***************************************************************************)
(* Properties of a run (Spec).                                             *)
(***************************************************************************)

\* C1: in the JSON scripts, once every discovered file has been processed
\* without a fatal error, the table handed to to_json holds the selected
\* rows of all files stacked in processing order: as many rows as were
\* selected in total, the same cells in the same order, and (when there is
\* a row) exactly the columns of the variant's schema.
C1_StackedInOrder ==
    (variant \in JsonVariants /\ pc = "loop" /\ i = Len(found)) =>
        /\ Len(data.index) = Len(StackValues(selected))
        /\ data.values = StackValues(selected)
        /\ Len(StackValues(selected)) > 0 => data.columns = Schema(variant)

\* C2: in the company and csv scripts, when the code block at the configured
\* index of file k does not parse as JSON, the run ends at file k with a
\* non-zero status, reads no later file and has written no result file.
C2_FailFast ==
    \A k \in 1..i :
        (variant \in {"company", "csv"}
         /\ BlockFailsToParse(found[k].doc, ConfiguredIndex(variant)))
        => AbortedAt(k)

C2_Witness ==
    /\ variant = "company" /\ i = 2 /\ Len(selected) = 1
    /\ BlockFailsToParse(found[2].doc, ELEMENT_WITH_RELEVANT_DATA)
    /\ pc = "exit" /\ printed

\* C7: in the person script the candidate indices 14, 16 are tried in that
\* order; the payload used is the one at the first candidate that parses;
\* when every candidate fails to parse the run prints the diagnostic and
\* ends with a non-zero status, writing nothing.
C7_FirstParsingCandidate ==
    variant = "person" =>
        \A k \in 1..Len(consulted) :
            LET doc == found[k].doc
                c == consulted[k]
                parsing == {p \in 1..Len(ELEMENTS_WITH_RELEVANT_DATA) :
                               BlockParses(doc, ELEMENTS_WITH_RELEVANT_DATA[p])}
                first == ELEMENTS_WITH_RELEVANT_DATA[CHOOSE p \in parsing : \A q \in parsing : p <= q]
            IN /\ Len(c) >= 1
               /\ c = SubSeq(ELEMENTS_WITH_RELEVANT_DATA, 1, Len(c))
               /\ \A p \in 1..(Len(c) - 1) : BlockFailsToParse(doc, c[p])
               /\ parsing # {} =>
                    /\ Last(c) = first
                    /\ k <= Len(selected) =>
                         selected[k] = exclude_rows_with_x_nans(
                                           RowsOfPayload("person", doc.at[first].value).frame,
                                           PERSON_NAN_THRESHOLD)
               /\ (\A p \in 1..Len(ELEMENTS_WITH_RELEVANT_DATA) :
                       BlockFailsToParse(doc, ELEMENTS_WITH_RELEVANT_DATA[p]))
                  => /\ c = ELEMENTS_WITH_RELEVANT_DATA
                     /\ AbortedAt(k)
                     /\ pc = "exit" /\ printed

C7_Witness ==
    /\ variant = "person" /\ i = 2
    /\ consulted = <<ELEMENTS_WITH_RELEVANT_DATA, ELEMENTS_WITH_RELEVANT_DATA>>
    /\ Len(selected) = 1 /\ Len(selected[1].index) > 0
    /\ pc = "exit" /\ printed /\ ~written

\* C8: a second run on the same directory, its HTML files unchanged and the
\* first run's result file present, iterates over the same files and, when
\* it ends, has completed and written the same result as the first run.
C8_Idempotent ==
    run = 2 =>
        /\ found = prev.found
        /\ pc # "loop" => (pc = "done" /\ written /\ outFile = prev.out)

C8_Witness ==
    /\ run = 2 /\ pc = "done" /\ written
    /\ variant \in JsonVariants
    /\ Len(found) > 0 /\ Len(outFile.records) > 0

\* C9: a file whose payload parses and holds an empty `included` array makes
\* the company run abort at that file (row_with_most_non_nans raises), with
\* nothing written and no later file processed; the person run processes
\* the same payload without error and gets zero rows from it.
C9_EmptyIncluded ==
    \A k \in 1..Len(consulted) :
        LET doc == found[k].doc
            e == Last(consulted[k])
        IN (variant \in JsonVariants /\ BlockParses(doc, e)
            /\ doc.at[e].value = JObj([included |-> JList(<<>>)]))
           => IF variant = "company"
              THEN AbortedAt(k) /\ pc = "crash" /\ err = "ValueError"
                   /\ Len(selected) = k - 1
              ELSE Len(selected) >= k /\ Len(selected[k].index) = 0

C9_Witness ==
    /\ variant = "company" /\ i = 2 /\ Len(selected) = 1
    /\ BlockParses(found[2].doc, ELEMENT_WITH_RELEVANT_DATA)
    /\ found[2].doc.at[ELEMENT_WITH_RELEVANT_DATA].value = JObj([included |-> JList(<<>>)])
    /\ pc = "crash" /\ err = "ValueError"

\* C10: in the person script a candidate that parses is the last one
\* consulted for its file; when the parsed object has no `included` key the
\* run aborts with an uncaught KeyError (no diagnostic), writing nothing.
C10_NoFallbackAfterParse ==
    variant = "person" =>
        \A k \in 1..Len(consulted) :
            LET doc == found[k].doc
                c == consulted[k]
            IN /\ \A p \in 1..Len(c) : BlockParses(doc, c[p]) => p = Len(c)
               /\ (/\ BlockParses(doc, Last(c))
                   /\ doc.at[Last(c)].value.type = "obj"
                   /\ "included" \notin DOMAIN doc.at[Last(c)].value.at)
                  => AbortedAt(k) /\ pc = "crash" /\ err = "KeyError" /\ ~printed

C10_Witness ==
    /\ variant = "person" /\ i >= 1 /\ Len(consulted) = i
    /\ consulted[i] = <<14>>
    /\ BlockParses(found[i].doc, 16)
    /\ "included" \in DOMAIN found[i].doc.at[16].value.at
    /\ pc = "crash" /\ err = "KeyError" /\ ~printed /\ ~written

(***************************************************************************)
(* Properties of the row selectors (SpecSelect).                           *)
(***************************************************************************)

\* C5: for a table with at least one row, row_with_most_non_nans returns
\* exactly one row; it is a row of the table with the largest number of
\* non-null cells, and the first such row.
C5_BestRow ==
    (fn = "row_with_most_non_nans" /\ pc = "return" /\ Len(arg.df.index) > 0) =>
        /\ res.type = "frame"
        /\ Len(res.frame.index) = 1 /\ Len(res.frame.values) = 1
        /\ res.frame.columns = arg.df.columns
        /\ LET p == res.frame.index[1] + 1
           IN /\ p \in 1..Len(arg.df.index)
              /\ res.frame.values[1] = arg.df.values[p]
              /\ \A q \in 1..Len(arg.df.index) :
                    NonNulls(arg.df.values[q]) <= NonNulls(arg.df.values[p])
              /\ \A q \in 1..(p - 1) :
                    NonNulls(arg.df.values[q]) < NonNulls(arg.df.values[p])

C5_Witness ==
    /\ fn = "row_with_most_non_nans" /\ pc = "return"
    /\ Len(arg.df.index) = 4
    /\ [q \in 1..4 |-> NonNulls(arg.df.values[q])] = <<3, 1, 4, 4>>
    /\ res.type = "frame" /\ res.frame.index = <<2>>

\* C6: exclude_rows_with_x_nans(df, x) keeps exactly the rows with at most
\* x null cells, in their original order.
C6_ThresholdDrop ==
    (fn = "exclude_rows_with_x_nans" /\ pc = "return") =>
        LET kept == SelectSeq([q \in 1..Len(arg.df.index) |-> q],
                              LAMBDA q : Nulls(arg.df.values[q]) <= arg.x)
        IN /\ res.frame.columns = arg.df.columns
           /\ res.frame.index = [q \in 1..Len(kept) |-> arg.df.index[kept[q]]]
           /\ res.frame.values = [q \in 1..Len(kept) |-> arg.df.values[kept[q]]]

C6_Witness ==
    /\ fn = "exclude_rows_with_x_nans" /\ pc = "return"
    /\ arg.x = PERSON_NAN_THRESHOLD
    /\ Len(arg.df.index) = 5
    /\ [q \in 1..5 |-> Nulls(arg.df.values[q])] = <<0, 1, 2, 3, 4>>
    /\ res.frame.index = <<0, 1, 2>>

(***************************************************************************)
(* Properties of the field extraction (SpecExtract).                       *)
(***************************************************************************)

\* C3: for a record in which an intermediate object read by the extractor
\* is present but null, extraction does not raise and every output field
\* derived through that object is null.
C3_NullIntermediate ==
    (pc = "return" /\ MappingsOrNull(fn, arg)
     /\ \E p \in Intermediates(fn) : NullAt(arg, p))
    => /\ ~IsRaise(res)
       /\ \A j \in 1..Len(FieldPaths(fn)) :
             (\E p \in Intermediates(fn) : NullAt(arg, p) /\ IsPrefix(p, FieldPaths(fn)[j]))
             => res.frame.values[1][j] = JNull

\* C4: for a record (a mapping) whose intermediate objects are absent or
\* mappings, whatever keys are absent, extraction does not raise and gives
\* one row with the variant's columns, each cell being the value at its
\* source path when the whole path is present and null otherwise.
C4_MissingKeys ==
    (pc = "return" /\ MappingsOnly(fn, arg)) =>
        /\ res.type = "frame"
        /\ res.frame.columns = Schema(fn)
        /\ Len(res.frame.index) = 1 /\ Len(res.frame.values) = 1
        /\ \A j \in 1..Len(FieldPaths(fn)) :
              res.frame.values[1][j] =
                  IF HasPath(arg, FieldPaths(fn)[j]) THEN AtPath(arg, FieldPaths(fn)[j])
                  ELSE JNull

C4_Witness ==
    /\ pc = "return" /\ fn = "person"
    /\ arg = JObj([title |-> Text("Jane Doe"), primarySubtitle |-> Text("Engineer"),
                   bserpEntityNavigationalUrl |-> JStr("https://x")])
    /\ res.type = "frame"
    /\ res.frame.values = <<<<JStr("Jane Doe"), JStr("Engineer"), JNull, JStr("https://x")>>>>

====
